---------------------------- MODULE Spec2Model ----------------------------
(***************************************************************************)
(* The closure-based functional utilities of src/closure.js: unary, once,  *)
(* every, any, memorized, map, filter, zip, forEach and their arrow-style  *)
(* twins.  A caller picks one utility, builds it from a callable fn and a  *)
(* context, and then invokes it.  Every call is run on the                 *)
(* function-expression variant and on the arrow variant side by side.      *)
(*                                                                         *)
(* JavaScript values are tagged strings: "n:1" is the number 1, "s:1" the  *)
(* string "1", "o:A" an object, "b:true" a boolean, "f:..." a function.    *)
(***************************************************************************)
EXTENDS Integers, Sequences, FiniteSets, TLC

VARIABLES
    utility,        \* which utility of closure.js the caller exercises
    fn,             \* the callable handed to the utility
    context,        \* the context handed to the utility (undefined: not passed)
    hostArguments,  \* what `arguments` denotes at the top level of the file
    closure,        \* per variant, what the utility returned: the callable and
                    \* the variables it closes over (done, cached)
    twin,           \* per variant, what a second call of the utility with the
                    \* same fn and context returned
    n,              \* number of calls made so far
    stored,         \* per variant, the keys (as passed) some call stored a result for
    last            \* the last call: inputs, state before, fn invocations, outcome

vars == <<utility, fn, context, hostArguments, closure, twin, n, stored, last>>

\* ---------------------------------------------------------------- bounds

MaxCalls == 3       \* calls made on one wrapper
MaxLen == 3         \* length of a sequence handed to every / any
MaxArgs == 3        \* arguments handed to a guarded or adapted callable
MaxArity == 3       \* declared arity of fn

\* ---------------------------------------------------------------- values

Variants == {"function", "arrow"}

Undefined == "undefined"
Null == "null"
Numbers == {"n:0", "n:1", "n:2", "n:3", "n:4", "n:5"}
Strings == {"s:", "s:1", "s:toString", "s:number", "s:string", "s:object",
            "s:undefined", "s:boolean", "s:function", "s:__filename", "s:__dirname"}
Booleans == {"b:true", "b:false"}
Objects == {"o:A", "o:B", "o:ctx", "o:caller", "o:exports", "o:module"}
Functions == {"f:require", "f:Object.prototype.toString"}

\* ToBoolean: the values that count as false in `&&`, `||`, `?:` and `if`.
Truthy(v) == v \notin {Undefined, Null, "n:0", "s:", "b:false"}

Bool(b) == IF b THEN "b:true" ELSE "b:false"

Num(k) ==
    CASE k = 0 -> "n:0" [] k = 1 -> "n:1" [] k = 2 -> "n:2"
      [] k = 3 -> "n:3" [] k = 4 -> "n:4" [] OTHER -> "n:5"

\* The typeof operator.
TypeOf(v) ==
    CASE v \in Numbers -> "s:number"
      [] v \in Strings -> "s:string"
      [] v \in Booleans -> "s:boolean"
      [] v \in Functions -> "s:function"
      [] v = Undefined -> "s:undefined"
      [] OTHER -> "s:object"

\* The i-th argument of a call, undefined when fewer were passed.
Arg(args, i) == IF i <= Len(args) THEN args[i] ELSE Undefined

\* A default parameter value (`p = d`): taken when the argument is undefined.
Default(v, d) == IF v = Undefined THEN d ELSE v

\* ------------------------------------------------------------- callables

\* How a call ends: a returned value (obj: the mapping, when the value is the
\* cache object; the elements, when it is an array) or a thrown error.
NoObject == <<>>
Return(v) == [kind |-> "return", value |-> v, obj |-> NoObject]
Throw(e) == [kind |-> "throw", value |-> e, obj |-> NoObject]

\* `let results = []; ... return results`: an array created by the call.
ReturnArray(elements) == [kind |-> "return", value |-> "o:results", obj |-> elements]

\* One entry of fn: its receiver and its argument list.
Invocation(this, args) == [this |-> this, args |-> args]

\* The callables a caller hands in: a declared arity (fn.length) and a body,
\* one of "zero", "typeof", "this", "argc", "first", "second", "isNumber",
\* "throws", "throwIfString", and for once "reenter".
UserFn(len, body) == [length |-> len, body |-> body]

\* A value handed in as fn that is no function (a number, an object).
NotCallable == [length |-> 0, body |-> "none"]
IsCallable(f) == f.body # "none"

\* What the body of a user callable returns for a receiver and arguments
\* (a strict-mode function: `this` is the receiver as passed).
Apply(f, this, args) ==
    CASE f.body = "zero" -> Return("n:0")
      [] f.body = "typeof" -> Return(TypeOf(Arg(args, 1)))
      [] f.body = "this" -> Return(this)
      [] f.body = "argc" -> Return(Num(Len(args)))
      [] f.body = "first" -> Return(Arg(args, 1))
      [] f.body = "second" -> Return(Arg(args, 2))
      [] f.body = "throws" -> Throw("Error")
      [] f.body = "throwIfString" ->
             IF TypeOf(Arg(args, 1)) = "s:string"
             THEN Throw("Error") ELSE Return(TypeOf(Arg(args, 1)))
      [] OTHER -> Return(Bool(TypeOf(Arg(args, 1)) = "s:number"))

\* A call expression that yields undefined when fn is not a function.
CallIfCallable(f, this, args) ==
    IF IsCallable(f)
    THEN [invoked |-> <<Invocation(this, args)>>, out |-> Apply(f, this, args)]
    ELSE [invoked |-> <<>>, out |-> Return(Undefined)]

\* The expression fn.call(context, ...args): a TypeError, and no entry of
\* fn, when fn is not a function; else the entry of fn and how it ends.
Call(f, this, args) ==
    IF IsCallable(f)
    THEN [invoked |-> <<Invocation(this, args)>>, out |-> Apply(f, this, args)]
    ELSE [invoked |-> <<>>, out |-> Throw("TypeError")]

\* `arguments` at the top level of the file: the CommonJS module wrapper's
\* five arguments, or no binding at all (an ES module, a browser script).
ModuleArguments == <<"o:exports", "f:require", "o:module", "s:__filename", "s:__dirname">>
CommonJS == [bound |-> TRUE, value |-> ModuleArguments]
NoArguments == [bound |-> FALSE, value |-> <<>>]
HostArguments == {CommonJS, NoArguments}

\* ------------------------------------------------------------------ once

\* once: `context = null`, `let done = false`, and the returned function
\* closes over fn, context and done.
once(f, ctx) == [fn |-> f, context |-> Default(ctx, Null), done |-> FALSE]

\* onceArrow: the same construction.
onceArrow(f, ctx) == [fn |-> f, context |-> Default(ctx, Null), done |-> FALSE]

\* A guard that sets the latch when fn has returned: a throw leaves it
\* unset, and a call made from inside fn enters fn as well.
onceGuardedLatchLate(g, arguments) ==
    IF TRUE = g.done
    THEN [closure |-> g, invoked |-> <<>>, out |-> Return(Undefined)]
    ELSE IF g.fn.body = "reenter"
         THEN [closure |-> [g EXCEPT !.done = TRUE],
               invoked |-> <<Invocation(g.context, arguments),
                             Invocation(g.context, <<>>)>>,
               out |-> Return(Undefined)]
         ELSE LET r == Apply(g.fn, g.context, arguments)
              IN [closure |-> IF r.kind = "throw" THEN g ELSE [g EXCEPT !.done = TRUE],
                  invoked |-> <<Invocation(g.context, arguments)>>,
                  out |-> r]

\* The function returned by once, called with `arguments`:
\*   true === done ? undefined : (done = true, fn.apply(context, arguments))
\* `done = true` runs first.  An fn with body "reenter" is
\* function () { return guarded(); }: it calls the guarded callable while it
\* runs, on the variables as they are then, and returns what that call returns.
RECURSIVE onceGuarded(_, _)
onceGuarded(g, arguments) ==
    IF TRUE = g.done
    THEN [closure |-> g, invoked |-> <<>>, out |-> Return(Undefined)]
    ELSE LET fired == [g EXCEPT !.done = TRUE]
         IN IF g.fn.body = "reenter"
            THEN LET nested == onceGuarded(fired, <<>>)
                 IN [closure |-> nested.closure,
                     invoked |-> <<Invocation(g.context, arguments)>> \o nested.invoked,
                     out |-> nested.out]
            ELSE [closure |-> fired,
                  invoked |-> <<Invocation(g.context, arguments)>>,
                  out |-> Apply(g.fn, g.context, arguments)]

\* The arrow returned by onceArrow, same text.  An arrow has no `arguments`
\* of its own: the name resolves in the enclosing scopes, which are arrows up
\* to the top level of the file, so the caller's arguments are never seen.
\* Where the top level binds no `arguments`, reading it throws after
\* `done = true` has run and before fn is entered.
RECURSIVE onceArrowGuarded(_, _, _)
onceArrowGuarded(g, arguments, host) ==
    IF TRUE = g.done
    THEN [closure |-> g, invoked |-> <<>>, out |-> Return(Undefined)]
    ELSE LET fired == [g EXCEPT !.done = TRUE]
         IN IF ~host.bound
            THEN [closure |-> fired, invoked |-> <<>>, out |-> Throw("ReferenceError")]
            ELSE IF g.fn.body = "reenter"
                 THEN LET nested == onceArrowGuarded(fired, <<>>, host)
                      IN [closure |-> nested.closure,
                          invoked |-> <<Invocation(g.context, host.value)>>
                                          \o nested.invoked,
                          out |-> nested.out]
                 ELSE [closure |-> fired,
                       invoked |-> <<Invocation(g.context, host.value)>>,
                       out |-> Apply(g.fn, g.context, host.value)]

\* ------------------------------------------------------------- memorized

\* Property names of the cache object, and the mark of "no own property".
PropNames == {"1", "2", "toString", "[object Object]"}
Absent == "<absent>"

\* ToPropertyKey: the conversion `cached[arg]` applies to arg before the
\* lookup.  Numbers and strings print their digits / characters, a plain
\* object prints as "[object Object]".
ToPropertyKey(v) ==
    CASE v = "n:1" -> "1"
      [] v = "s:1" -> "1"
      [] v = "n:2" -> "2"
      [] v = "s:toString" -> "toString"
      [] OTHER -> "[object Object]"

\* What Object.prototype, the prototype of `{}`, holds under a name.
ObjectPrototype(key) ==
    IF key = "toString" THEN "f:Object.prototype.toString" ELSE Undefined

\* Whether the cache object has its own property under a name.
HasOwn(c, key) == c[key] # Absent

\* The read `cached[key]`: the own property, else the inherited one.
Get(c, key) == IF HasOwn(c, key) THEN c[key] ELSE ObjectPrototype(key)

\* A write that drops every other property.
PutAlone(c, key, v) == [k \in PropNames |-> IF k = key THEN v ELSE Absent]

\* The write `cached[key] = v`: creates or overwrites the own property.
Put(c, key, v) == [c EXCEPT ![key] = v]

\* `{}`: an object with no own property.
EmptyObject == [k \in PropNames |-> Absent]

\* memorized: `context = null`, `const cached = {}`, and the returned
\* function closes over fn, context and cached.
memorized(f, ctx) == [fn |-> f, context |-> Default(ctx, Null), cached |-> EmptyObject]

\* memorizedArrow: the same construction.
memorizedArrow(f, ctx) == [fn |-> f, context |-> Default(ctx, Null), cached |-> EmptyObject]

\* `return cached`: the cache object itself.
ReturnCache(c) == [kind |-> "return", value |-> "o:cached", obj |-> c]

\* A variant of the last line that never reads the cache.
LookupOrComputeAlways(m, arg, contextInner) ==
    LET key == ToPropertyKey(arg)
        receiver == IF Null # contextInner THEN contextInner ELSE m.context
        r == Apply(m.fn, receiver, <<arg>>)
    IN [closure |-> [m EXCEPT !.cached = Put(m.cached, key, r.value)],
        invoked |-> <<Invocation(receiver, <<arg>>)>>,
        out |-> Return(r.value)]

\* A variant of the last line that serves an entry only to a call without an
\* override receiver.
LookupOrComputePerReceiver(m, arg, contextInner) ==
    LET key == ToPropertyKey(arg)
        hit == Get(m.cached, key)
        receiver == IF Null # contextInner THEN contextInner ELSE m.context
        r == Apply(m.fn, receiver, <<arg>>)
    IN IF Truthy(hit) /\ Null = contextInner
       THEN [closure |-> m, invoked |-> <<>>, out |-> Return(hit)]
       ELSE IF r.kind = "throw"
            THEN [closure |-> m, invoked |-> <<Invocation(receiver, <<arg>>)>>, out |-> r]
            ELSE [closure |-> [m EXCEPT !.cached = Put(m.cached, key, r.value)],
                  invoked |-> <<Invocation(receiver, <<arg>>)>>,
                  out |-> Return(r.value)]

\* A variant of the last line that marks the entry before it enters fn.
LookupOrComputeMarksFirst(m, arg, contextInner) ==
    LET key == ToPropertyKey(arg)
        hit == Get(m.cached, key)
        receiver == IF Null # contextInner THEN contextInner ELSE m.context
        r == Apply(m.fn, receiver, <<arg>>)
    IN IF Truthy(hit)
       THEN [closure |-> m, invoked |-> <<>>, out |-> Return(hit)]
       ELSE [closure |-> [m EXCEPT !.cached =
                             Put(m.cached, key,
                                 IF r.kind = "throw" THEN "o:pending" ELSE r.value)],
             invoked |-> <<Invocation(receiver, <<arg>>)>>,
             out |-> r]

\* The last line of both returned functions:
\*   cached[arg] || (cached[arg] = fn.call(null !== contextInner ? contextInner : context, arg))
LookupOrCompute(m, arg, contextInner) ==
    LET key == ToPropertyKey(arg)
        hit == Get(m.cached, key)
        receiver == IF Null # contextInner THEN contextInner ELSE m.context
        r == Apply(m.fn, receiver, <<arg>>)
    IN IF Truthy(hit)
       THEN [closure |-> m, invoked |-> <<>>, out |-> Return(hit)]
       ELSE IF r.kind = "throw"
            THEN [closure |-> m, invoked |-> <<Invocation(receiver, <<arg>>)>>, out |-> r]
            ELSE [closure |-> [m EXCEPT !.cached = Put(m.cached, key, r.value)],
                  invoked |-> <<Invocation(receiver, <<arg>>)>>,
                  out |-> Return(r.value)]

\* The function returned by memorized:
\*   function (arg, contextInner = null, show = false) { if (show) { return cached; } ... }
memorizedClosure(m, arg, contextInner, show) ==
    IF Truthy(Default(show, "b:false"))
    THEN [closure |-> m, invoked |-> <<>>, out |-> ReturnCache(m.cached)]
    ELSE LookupOrCompute(m, arg, Default(contextInner, Null))

\* The arrow returned by memorizedArrow: `if (true === show) { return cached; }`.
memorizedArrowClosure(m, arg, contextInner, show) ==
    IF "b:true" = Default(show, "b:false")
    THEN [closure |-> m, invoked |-> <<>>, out |-> ReturnCache(m.cached)]
    ELSE LookupOrCompute(m, arg, Default(contextInner, Null))

\* ----------------------------------------------------------------- unary

\* The function unary returns when fn.length is not 1:
\*   function (arg) { return fn.call(context, arg); }
UnaryAdapter(f, ctx) == [wraps |-> f, context |-> ctx]

\* A variant of unary without the arity test.
unaryAlwaysAdapts(f, ctx) == UnaryAdapter(f, Default(ctx, Null))

\* unary: 1 === fn.length ? fn : function (arg) {...}
unary(f, ctx) == IF 1 = f.length THEN f ELSE UnaryAdapter(f, Default(ctx, Null))

\* A variant of unaryArrow without the arity test.
unaryArrowAlwaysAdapts(f, ctx) == UnaryAdapter(f, Default(ctx, Null))

\* unaryArrow: 1 === fn.length ? fn : (arg) => fn.call(context, arg)
unaryArrow(f, ctx) == IF 1 = f.length THEN f ELSE UnaryAdapter(f, Default(ctx, Null))

IsAdapter(g) == "wraps" \in DOMAIN g

\* A call g.call(self, ...args) of what unary returned: fn itself sees the
\* caller's receiver and every argument, the adapter passes on context and
\* its one declared parameter.
Invoke(g, self, args) ==
    IF IsAdapter(g)
    THEN [closure |-> g,
          invoked |-> <<Invocation(g.context, <<Arg(args, 1)>>)>>,
          out |-> Apply(g.wraps, g.context, <<Arg(args, 1)>>)]
    ELSE [closure |-> g,
          invoked |-> <<Invocation(self, args)>>,
          out |-> Apply(g, self, args)]

\* ----------------------------------------------------------- every / any

\* A variant of the loop of every that enters fn for every item.
RECURSIVE everyLoopEager(_, _, _, _, _)
everyLoopEager(items, f, ctx, result, invoked) ==
    IF items = <<>>
    THEN [invoked |-> invoked, out |-> Return(result)]
    ELSE everyLoopEager(Tail(items), f, ctx,
                        IF Truthy(result)
                        THEN Apply(f, ctx, <<Head(items)>>).value ELSE result,
                        Append(invoked, Invocation(ctx, <<Head(items)>>)))

\* The loop of every, from a given point on:
\*   for (const item of items) { result = result && fn.call(context, item); }
\* `a && b` evaluates b only when a is truthy, and is then b; else it is a.
\* A throw inside the loop ends the call.
RECURSIVE everyLoop(_, _, _, _, _)
everyLoop(items, f, ctx, result, invoked) ==
    IF items = <<>>
    THEN [invoked |-> invoked, out |-> Return(result)]
    ELSE IF Truthy(result)
         THEN LET c == Call(f, ctx, <<Head(items)>>)
              IN IF c.out.kind = "throw"
                 THEN [invoked |-> invoked \o c.invoked, out |-> c.out]
                 ELSE everyLoop(Tail(items), f, ctx, c.out.value,
                                invoked \o c.invoked)
         ELSE everyLoop(Tail(items), f, ctx, result, invoked)

\* What a call on sequences leaves behind: the entries of fn, how the call
\* ended, and what the sequences handed in hold afterwards.
Outcome(r, arrays) == [invoked |-> r.invoked, out |-> r.out, arrays |-> arrays]

\* every: `context = null`, `let result = true`, the loop, `return result`.
\* No statement writes to items.
every(items, f, ctx) ==
    Outcome(everyLoop(items, f, Default(ctx, Null), "b:true", <<>>), <<items>>)

\* everyArrow: the same text as every.
everyArrow(items, f, ctx) ==
    Outcome(everyLoop(items, f, Default(ctx, Null), "b:true", <<>>), <<items>>)

\* The loop of any, from a given point on:
\*   for (const item of items) { result = result || fn.call(context, item); }
\* `a || b` evaluates b only when a is falsy, and is then b; else it is a.
\* A throw inside the loop ends the call.
RECURSIVE anyLoop(_, _, _, _, _)
anyLoop(items, f, ctx, result, invoked) ==
    IF items = <<>>
    THEN [invoked |-> invoked, out |-> Return(result)]
    ELSE IF Truthy(result)
         THEN anyLoop(Tail(items), f, ctx, result, invoked)
         ELSE LET c == Call(f, ctx, <<Head(items)>>)
              IN IF c.out.kind = "throw"
                 THEN [invoked |-> invoked \o c.invoked, out |-> c.out]
                 ELSE anyLoop(Tail(items), f, ctx, c.out.value,
                              invoked \o c.invoked)

\* any: `context = null`, `let result = false`, the loop, `return result`.
\* No statement writes to items.
any(items, f, ctx) ==
    Outcome(anyLoop(items, f, Default(ctx, Null), "b:false", <<>>), <<items>>)

\* anyArrow: the same text as any.
anyArrow(items, f, ctx) ==
    Outcome(anyLoop(items, f, Default(ctx, Null), "b:false", <<>>), <<items>>)

\* ------------------------------------------------------------------- map

\* A loop that puts each result in front of the earlier ones.
RECURSIVE mapLoopUnshift(_, _, _, _, _)
mapLoopUnshift(items, f, ctx, results, invoked) ==
    IF items = <<>>
    THEN [invoked |-> invoked, out |-> ReturnArray(results)]
    ELSE LET c == Call(f, ctx, <<Head(items)>>)
         IN IF c.out.kind = "throw"
            THEN [invoked |-> invoked \o c.invoked, out |-> c.out]
            ELSE mapLoopUnshift(Tail(items), f, ctx, <<c.out.value>> \o results,
                                invoked \o c.invoked)

\* `for (const item of items) { results.push(fn.call(context, item)); }`
\* over the items still to visit; `return results` after the last one.
RECURSIVE mapLoop(_, _, _, _, _)
mapLoop(items, f, ctx, results, invoked) ==
    IF items = <<>>
    THEN [invoked |-> invoked, out |-> ReturnArray(results)]
    ELSE LET c == Call(f, ctx, <<Head(items)>>)
         IN IF c.out.kind = "throw"
            THEN [invoked |-> invoked \o c.invoked, out |-> c.out]
            ELSE mapLoop(Tail(items), f, ctx, Append(results, c.out.value),
                         invoked \o c.invoked)

\* map: `context = null`, `let results = []`, the loop, `return results`.
\* No statement writes to items.
map(items, f, ctx) ==
    Outcome(mapLoop(items, f, Default(ctx, Null), <<>>, <<>>), <<items>>)

\* mapArrow: the same text as map.
mapArrow(items, f, ctx) ==
    Outcome(mapLoop(items, f, Default(ctx, Null), <<>>, <<>>), <<items>>)

\* ---------------------------------------------------------------- filter

\* A loop that keeps fn's result in place of the item.
RECURSIVE filterLoopPushesResult(_, _, _, _, _)
filterLoopPushesResult(items, f, ctx, results, invoked) ==
    IF items = <<>>
    THEN [invoked |-> invoked, out |-> ReturnArray(results)]
    ELSE LET c == Call(f, ctx, <<Head(items)>>)
         IN IF c.out.kind = "throw"
            THEN [invoked |-> invoked \o c.invoked, out |-> c.out]
            ELSE filterLoopPushesResult(Tail(items), f, ctx,
                            IF Truthy(c.out.value)
                            THEN Append(results, c.out.value) ELSE results,
                            invoked \o c.invoked)

\* `for (const item of items) {
\*      (fn.call(context, item) ? results.push(item) : undefined); }`
RECURSIVE filterLoop(_, _, _, _, _)
filterLoop(items, f, ctx, results, invoked) ==
    IF items = <<>>
    THEN [invoked |-> invoked, out |-> ReturnArray(results)]
    ELSE LET c == Call(f, ctx, <<Head(items)>>)
         IN IF c.out.kind = "throw"
            THEN [invoked |-> invoked \o c.invoked, out |-> c.out]
            ELSE filterLoop(Tail(items), f, ctx,
                            IF Truthy(c.out.value)
                            THEN Append(results, Head(items)) ELSE results,
                            invoked \o c.invoked)

\* A filter that removes the rejected elements from items and returns items.
filterInPlace(items, f, ctx) ==
    LET r == filterLoop(items, f, Default(ctx, Null), <<>>, <<>>)
    IN IF r.out.kind = "throw"
       THEN Outcome(r, <<items>>)
       ELSE [invoked |-> r.invoked,
             out |-> [r.out EXCEPT !.value = "o:items"],
             arrays |-> <<r.out.obj>>]

\* filter: `context = null`, `let results = []`, the loop, `return results`.
\* No statement writes to items.
filter(items, f, ctx) ==
    Outcome(filterLoop(items, f, Default(ctx, Null), <<>>, <<>>), <<items>>)

\* filterArrow: the same text as filter.
filterArrow(items, f, ctx) ==
    Outcome(filterLoop(items, f, Default(ctx, Null), <<>>, <<>>), <<items>>)

\* ------------------------------------------------------------------- zip

\* arr[index]: undefined beyond the last element.
At(arr, index) == IF index < Len(arr) THEN arr[index + 1] ELSE Undefined

\* A loop bound that follows the left sequence alone.
zipBoundLeft(leftArr, rightArr) == Len(leftArr)

\* The loop bound `Math.min(leftArr.length, rightArr.length)`.
zipBound(leftArr, rightArr) ==
    IF Len(leftArr) <= Len(rightArr) THEN Len(leftArr) ELSE Len(rightArr)

\* `for (index = 0; index < Math.min(...); ++index) {
\*      results.push(fn.call(context, leftArr[index], rightArr[index])); }`
RECURSIVE zipLoop(_, _, _, _, _, _, _)
zipLoop(leftArr, rightArr, f, ctx, index, results, invoked) ==
    IF ~(index < zipBound(leftArr, rightArr))
    THEN [invoked |-> invoked, out |-> ReturnArray(results)]
    ELSE LET c == Call(f, ctx, <<At(leftArr, index), At(rightArr, index)>>)
         IN IF c.out.kind = "throw"
            THEN [invoked |-> invoked \o c.invoked, out |-> c.out]
            ELSE zipLoop(leftArr, rightArr, f, ctx, index + 1,
                         Append(results, c.out.value), invoked \o c.invoked)

\* zip: `context = null`, `results = []`, the loop, `return results`.
\* No statement writes to leftArr or rightArr.
zip(leftArr, rightArr, f, ctx) ==
    Outcome(zipLoop(leftArr, rightArr, f, Default(ctx, Null), 0, <<>>, <<>>),
            <<leftArr, rightArr>>)

\* zipArrow: the same text as zip.
zipArrow(leftArr, rightArr, f, ctx) ==
    Outcome(zipLoop(leftArr, rightArr, f, Default(ctx, Null), 0, <<>>, <<>>),
            <<leftArr, rightArr>>)

\* --------------------------------------------------------------- forEach

\* `for (let i = 0; i < array.length; ++i) { fn.call(context, array[i]); }`;
\* the function ends without a return statement.
RECURSIVE forEachLoop(_, _, _, _, _)
forEachLoop(array, f, ctx, i, invoked) ==
    IF ~(i < Len(array))
    THEN [invoked |-> invoked, out |-> Return(Undefined)]
    ELSE LET c == Call(f, ctx, <<At(array, i)>>)
         IN IF c.out.kind = "throw"
            THEN [invoked |-> invoked \o c.invoked, out |-> c.out]
            ELSE forEachLoop(array, f, ctx, i + 1, invoked \o c.invoked)

\* forEach: `context = null` and the loop.  No statement writes to array.
forEach(array, f, ctx) ==
    Outcome(forEachLoop(array, f, Default(ctx, Null), 0, <<>>), <<array>>)

\* forEachArrow: the same text as forEach.
forEachArrow(array, f, ctx) ==
    Outcome(forEachLoop(array, f, Default(ctx, Null), 0, <<>>), <<array>>)

\* ----------------------------------------------------------------- state

\* The inputs a caller draws from.
Contexts == {Undefined, "o:ctx"}
ArgValues == {"n:1", "s:1"}
ArgLists == UNION {[1..k -> ArgValues] : k \in 0..MaxArgs}
Receivers == {Undefined, "o:caller"}
KeyArgs == {"n:1", "s:1", "n:2", "s:toString", "o:A", "o:B"}
Overrides == {Undefined, "o:B"}
ShowFlags == {Undefined, "b:true", "n:1"}
ItemValues == {"n:0", "n:1", "s:"}
ItemLists == UNION {[1..k -> ItemValues] : k \in 0..MaxLen}
\* The arrays a caller hands in, as objects.
InputArrays == {"o:items", "o:leftArr", "o:rightArr", "o:array"}
LeftValues == {"n:1", "s:a"}
LeftLists == UNION {[1..k -> LeftValues] : k \in 0..MaxLen}
RightLists == {[i \in 1..k |-> Num(i + 1)] : k \in 0..MaxLen}

\* every / any are plain functions: nothing is returned to be called later.
NoClosure == [v \in Variants |-> <<>>]

NoCall ==
    [op |-> "none", args |-> <<>>, self |-> Undefined, pre |-> NoClosure,
     stored |-> [v \in Variants |-> {}],
     invoked |-> [v \in Variants |-> <<>>],
     out |-> [v \in Variants |-> Return(Undefined)],
     arrays |-> [v \in Variants |-> <<>>]]

\* The record of one call: what was passed, the closures before it, and per
\* variant the entries of fn it made and how it ended.
Called(op, args, self, r) ==
    [op |-> op, args |-> args, self |-> self, pre |-> closure, stored |-> stored,
     invoked |-> [v \in Variants |-> r[v].invoked],
     out |-> [v \in Variants |-> r[v].out],
     arrays |-> [v \in Variants |-> <<>>]]

\* The record of one call on sequences: also what the sequences handed in
\* hold after it.
CalledOn(op, args, r) ==
    [Called(op, args, Undefined, r) EXCEPT !.arrays = [v \in Variants |-> r[v].arrays]]

InitOnce ==
    /\ utility = "once"
    /\ fn \in {UserFn(0, "zero"), UserFn(0, "this"), UserFn(2, "argc"), UserFn(1, "first"),
               UserFn(0, "throws"), UserFn(0, "reenter")}
    /\ context \in Contexts
    /\ hostArguments \in HostArguments
    /\ closure = [function |-> once(fn, context), arrow |-> onceArrow(fn, context)]
    /\ twin = [function |-> once(fn, context), arrow |-> onceArrow(fn, context)]

InitMemorized ==
    /\ utility = "memorized"
    /\ fn \in {UserFn(1, b) : b \in {"zero", "typeof", "this", "isNumber",
                                     "throws", "throwIfString"}}
    /\ context \in Contexts
    /\ hostArguments = CommonJS
    /\ closure = [function |-> memorized(fn, context),
                  arrow |-> memorizedArrow(fn, context)]
    /\ twin = [function |-> memorized(fn, context),
               arrow |-> memorizedArrow(fn, context)]

InitUnary ==
    /\ utility = "unary"
    /\ fn \in {UserFn(len, b) : len \in 0..MaxArity, b \in {"argc", "this", "first"}}
    /\ context \in Contexts
    /\ hostArguments = CommonJS
    /\ closure = [function |-> unary(fn, context), arrow |-> unaryArrow(fn, context)]
    /\ twin = NoClosure

InitSequence ==
    /\ utility \in {"every", "any", "map", "filter", "forEach"}
    /\ fn \in {UserFn(1, b) : b \in {"zero", "typeof", "first", "isNumber"}}
              \cup {NotCallable}
    /\ context \in Contexts
    /\ hostArguments = CommonJS
    /\ closure = NoClosure
    /\ twin = NoClosure

InitZip ==
    /\ utility = "zip"
    /\ fn \in {UserFn(2, b) : b \in {"first", "second", "argc"}} \cup {NotCallable}
    /\ context \in Contexts
    /\ hostArguments = CommonJS
    /\ closure = NoClosure
    /\ twin = NoClosure

Init ==
    /\ (InitOnce \/ InitMemorized \/ InitUnary \/ InitSequence \/ InitZip)
    /\ n = 0
    /\ stored = [v \in Variants |-> {}]
    /\ last = NoCall

\* What every call does to the bookkeeping.
Record(call) ==
    /\ last' = call
    /\ n' = n + 1
    /\ UNCHANGED <<utility, fn, context, hostArguments>>

\* Variables declared once for the whole file: every closure writes the same.
OtherScopesShared(others, r) == [v \in Variants |-> r[v].closure]

\* `let done` and `const cached` are declared inside once / memorized: each
\* call of the utility gets variables of its own, and a closure writes only
\* those it was created with.
OtherScopes(others, r) == others

\* The caller invokes the guarded callable with some arguments.
CallOnce ==
    /\ utility = "once"
    /\ n < MaxCalls
    /\ \E args \in ArgLists :
        LET r == [function |-> onceGuarded(closure["function"], args),
                  arrow |-> onceArrowGuarded(closure["arrow"], args, hostArguments)]
        IN /\ closure' = [v \in Variants |-> r[v].closure]
           /\ twin' = OtherScopes(twin, r)
           /\ stored' = stored
           /\ Record(Called("once", args, Undefined, r))

\* The caller invokes the memorized callable with a key, an optional override
\* receiver and an optional show flag.
CallMemorized ==
    /\ utility = "memorized"
    /\ n < MaxCalls
    /\ \E arg \in KeyArgs, contextInner \in Overrides, show \in ShowFlags :
        LET r == [function |-> memorizedClosure(closure["function"],
                                                arg, contextInner, show),
                  arrow |-> memorizedArrowClosure(closure["arrow"],
                                                  arg, contextInner, show)]
        IN /\ closure' = [v \in Variants |-> r[v].closure]
           /\ stored' = [v \in Variants |->
                            IF r[v].invoked # <<>> /\ r[v].out.kind = "return"
                            THEN stored[v] \cup {arg} ELSE stored[v]]
           /\ twin' = OtherScopes(twin, r)
           /\ Record(Called("memorized", <<arg, contextInner, show>>, Undefined, r))

\* The caller invokes what unary returned, as a method of `self` or plainly.
CallUnary ==
    /\ utility = "unary"
    /\ n < MaxCalls
    /\ \E args \in ArgLists, self \in Receivers :
        LET r == [v \in Variants |-> Invoke(closure[v], self, args)]
        IN /\ UNCHANGED <<closure, twin, stored>>
           /\ Record(Called("unary", args, self, r))

\* The caller runs every / everyArrow on a sequence.
CallEvery ==
    /\ utility = "every"
    /\ n < MaxCalls
    /\ \E items \in ItemLists :
        LET r == [function |-> every(items, fn, context),
                  arrow |-> everyArrow(items, fn, context)]
        IN /\ UNCHANGED <<closure, twin, stored>>
           /\ Record(CalledOn("every", items, r))

\* The caller runs any / anyArrow on a sequence.
CallAny ==
    /\ utility = "any"
    /\ n < MaxCalls
    /\ \E items \in ItemLists :
        LET r == [function |-> any(items, fn, context),
                  arrow |-> anyArrow(items, fn, context)]
        IN /\ UNCHANGED <<closure, twin, stored>>
           /\ Record(CalledOn("any", items, r))

\* The caller runs map / mapArrow on a sequence.
CallMap ==
    /\ utility = "map"
    /\ n < MaxCalls
    /\ \E items \in ItemLists :
        LET r == [function |-> map(items, fn, context),
                  arrow |-> mapArrow(items, fn, context)]
        IN /\ UNCHANGED <<closure, twin, stored>>
           /\ Record(CalledOn("map", items, r))

\* The caller runs filter / filterArrow on a sequence.
CallFilter ==
    /\ utility = "filter"
    /\ n < MaxCalls
    /\ \E items \in ItemLists :
        LET r == [function |-> filter(items, fn, context),
                  arrow |-> filterArrow(items, fn, context)]
        IN /\ UNCHANGED <<closure, twin, stored>>
           /\ Record(CalledOn("filter", items, r))

\* The caller hands what filter returned to every, with the same fn and
\* context: every(filter(items, fn, context), fn, context).
CallEveryOfFilter ==
    /\ utility = "filter"
    /\ n < MaxCalls
    /\ last.op = "filter"
    /\ \A v \in Variants : last.out[v].kind = "return"
    /\ LET r == [function |-> every(last.out["function"].obj, fn, context),
                 arrow |-> everyArrow(last.out["arrow"].obj, fn, context)]
       IN /\ UNCHANGED <<closure, twin, stored>>
          /\ Record(CalledOn("every(filter)", last.args, r))

\* The caller runs forEach / forEachArrow on a sequence.
CallForEach ==
    /\ utility = "forEach"
    /\ n < MaxCalls
    /\ \E array \in ItemLists :
        LET r == [function |-> forEach(array, fn, context),
                  arrow |-> forEachArrow(array, fn, context)]
        IN /\ UNCHANGED <<closure, twin, stored>>
           /\ Record(CalledOn("forEach", array, r))

\* The caller runs zip / zipArrow on two sequences.
CallZip ==
    /\ utility = "zip"
    /\ n < MaxCalls
    /\ \E leftArr \in LeftLists, rightArr \in RightLists :
        LET r == [function |-> zip(leftArr, rightArr, fn, context),
                  arrow |-> zipArrow(leftArr, rightArr, fn, context)]
        IN /\ UNCHANGED <<closure, twin, stored>>
           /\ Record(CalledOn("zip", <<leftArr, rightArr>>, r))

Next ==
    \/ CallOnce \/ CallMemorized \/ CallUnary \/ CallEvery \/ CallAny
    \/ CallMap \/ CallFilter \/ CallEveryOfFilter \/ CallForEach \/ CallZip

Spec == Init /\ [][Next]_vars

\* --------------------------------------------------------------- claims

\* What the claims read off the last call.
BoundContext == Default(context, Null)
LastKey == last.args[1]
LastOverride == last.args[2]
LastShow == last.args[3]
NonInspectCall == last.op = "memorized" /\ LastShow \in {Undefined, "b:false"}
\* The receiver a computing call is to use: the override when one is
\* provided, else the bound context.
ExpectedReceiver ==
    IF LastOverride \notin {Undefined, Null} THEN LastOverride ELSE BoundContext
OwnKeys(c) == {k \in PropNames : HasOwn(c, k)}
\* What the same call, made once more in the current state, would do.
Again(v) ==
    IF v = "function"
    THEN memorizedClosure(closure[v], LastKey, LastOverride, LastShow)
    ELSE memorizedArrowClosure(closure[v], LastKey, LastOverride, LastShow)
\* fn's result on item i of the sequence handed to every / any.
ItemResult(i) == Apply(fn, BoundContext, <<last.args[i]>>).value
\* The entries of fn on the first k items, in order.
EntriesUpTo(k) == [i \in 1..k |-> Invocation(BoundContext, <<last.args[i]>>)]
\* The first item at which the loop's result turns falsy (every) or truthy
\* (any); the length of the sequence when there is none.
StopIndex ==
    LET stops == {i \in 1..Len(last.args) :
                     Truthy(ItemResult(i)) = (last.op = "any")}
    IN IF stops = {} THEN Len(last.args)
       ELSE CHOOSE i \in stops : \A j \in stops : i <= j

\* C1: over any sequence of invocations of the callable returned by once /
\* onceArrow, fn is entered exactly once, on the first invocation; the latch
\* is Armed (done = false) before it and Fired (done = true) ever after, and
\* every later invocation returns undefined without entering fn.
C1_OnceFiresExactlyOnce ==
    utility = "once" =>
        \A v \in Variants :
            /\ closure[v].done = (n >= 1)
            /\ (n = 1 => Len(last.invoked[v]) = 1)
            /\ (n >= 2 => last.invoked[v] = <<>> /\ last.out[v] = Return(Undefined))
            /\ (last.op = "once" /\ last.pre[v].done => closure[v].done)

\* C2 as stated: whenever the key is present in the cache, a non-inspect call
\* with it returns the stored result and does not enter fn.
C2_HitWheneverPresent ==
    NonInspectCall =>
        \A v \in Variants :
            LET key == ToPropertyKey(LastKey)
                before == last.pre[v].cached
            IN HasOwn(before, key) =>
                   /\ last.invoked[v] = <<>>
                   /\ last.out[v] = Return(before[key])

\* C2 as amended: whenever the key is present in the cache with a truthy
\* stored result, a non-inspect call with it returns the stored result, does
\* not enter fn and leaves the cache as it was; and after a non-inspect call
\* that returned a truthy result, the same call made again does not enter fn
\* and returns the same result.
C2_HitWhenStoredTruthy ==
    NonInspectCall =>
        \A v \in Variants :
            LET key == ToPropertyKey(LastKey)
                before == last.pre[v].cached
            IN /\ (HasOwn(before, key) /\ Truthy(before[key])) =>
                      /\ last.invoked[v] = <<>>
                      /\ last.out[v] = Return(before[key])
                      /\ closure[v].cached = before
               /\ (last.out[v].kind = "return" /\ Truthy(last.out[v].value)) =>
                      /\ Again(v).invoked = <<>>
                      /\ Again(v).out = last.out[v]

\* C2's case: a non-inspect call found a truthy result stored under its key
\* and did not enter fn.
C2_Witness ==
    /\ NonInspectCall
    /\ HasOwn(last.pre["function"].cached, ToPropertyKey(LastKey))
    /\ Truthy(last.pre["function"].cached[ToPropertyKey(LastKey)])
    /\ last.invoked["function"] = <<>>

\* C3: when fn returns a falsy value for the key (under every receiver it
\* may be given), every non-inspect call with that key enters fn again, once
\* per call, whatever was stored before.
C3_FalsyAlwaysRecomputes ==
    NonInspectCall =>
        \A v \in Variants :
            (\A receiver \in {BoundContext} \cup (Overrides \ {Undefined}) :
                 /\ Apply(fn, receiver, <<LastKey>>).kind = "return"
                 /\ ~Truthy(Apply(fn, receiver, <<LastKey>>).value)) =>
                last.invoked[v] = <<Invocation(ExpectedReceiver, <<LastKey>>)>>

\* C4 as stated: every / any enter fn exactly once per element of the
\* sequence, in order, whatever fn returned for the earlier elements.
C4_NoShortCircuit ==
    (last.op \in {"every", "any"} /\ IsCallable(fn)) =>
        \A v \in Variants : last.invoked[v] = EntriesUpTo(Len(last.args))

\* C4 as amended: every / any enter fn exactly once per element, in order, up
\* to and including the first element for which fn returns a falsy (every) or
\* truthy (any) result, and for no element after it; when there is no such
\* element fn is entered exactly once per element.
C4_ShortCircuitsAfterDecision ==
    (last.op \in {"every", "any"} /\ IsCallable(fn)) =>
        \A v \in Variants : last.invoked[v] = EntriesUpTo(StopIndex)

\* C4's case: fn decided the result before the last element and the elements
\* after it were skipped.
C4_Witness ==
    /\ last.op = "every"
    /\ IsCallable(fn)
    /\ Len(last.args) = 3
    /\ ~Truthy(ItemResult(1))
    /\ Len(last.invoked["function"]) = 1

\* C5: every returns the boolean true exactly when fn returns a truthy value
\* for all elements and the boolean false otherwise; any returns the boolean
\* true exactly when fn returns a truthy value for some element and the
\* boolean false otherwise (so true / false on the empty sequence).
C5_BooleanResult ==
    /\ (last.op = "every" /\ IsCallable(fn)) =>
           \A v \in Variants :
               last.out[v] = Return(Bool(\A i \in 1..Len(last.args) : Truthy(ItemResult(i))))
    /\ (last.op = "any" /\ IsCallable(fn)) =>
           \A v \in Variants :
               last.out[v] = Return(Bool(\E i \in 1..Len(last.args) : Truthy(ItemResult(i))))

\* C6: a non-inspect call with a key no earlier call has stored enters fn
\* exactly once, with the key as its only argument and with the override
\* receiver when one is provided, else the bound context; it stores fn's
\* result under the key and returns it.
C6_MissComputesAndStores ==
    NonInspectCall =>
        \A v \in Variants :
            (LastKey \notin last.stored[v]
             /\ Apply(fn, ExpectedReceiver, <<LastKey>>).kind = "return") =>
                LET result == Apply(fn, ExpectedReceiver, <<LastKey>>).value
                IN /\ last.invoked[v] = <<Invocation(ExpectedReceiver, <<LastKey>>)>>
                   /\ closure[v].cached[ToPropertyKey(LastKey)] = result
                   /\ last.out[v] = Return(result)

\* C7: keys are compared exactly: a call with a key that was never stored
\* does not read the entry of another key, and the keys stored so far have
\* separate entries (as many entries as stored keys).
C7_ExactKeyEquality ==
    last.op = "memorized" =>
        \A v \in Variants :
            /\ (NonInspectCall /\ LastKey \notin last.stored[v]) =>
                   ~HasOwn(last.pre[v].cached, ToPropertyKey(LastKey))
            /\ Cardinality(OwnKeys(closure[v].cached)) = Cardinality(stored[v])

\* C8: the function-expression variant and the arrow variant of a utility,
\* given the same inputs and the same sequence of calls, enter fn with the
\* same receivers and arguments the same number of times, end the same way
\* and are left in the same state.
C8_VariantsAgree ==
    /\ last.invoked["function"] = last.invoked["arrow"]
    /\ last.out["function"].kind = last.out["arrow"].kind
    /\ last.out["function"].value = last.out["arrow"].value
    /\ closure["function"] = closure["arrow"]

\* C9: the first invocation of the callable returned by once / onceArrow
\* enters fn with the bound context as receiver and exactly the arguments of
\* that invocation, in order, and returns fn's result.
C9_FirstCallForwardsArguments ==
    (utility = "once" /\ n = 1 /\ fn.body # "reenter") =>
        \A v \in Variants :
            /\ last.invoked[v] = <<Invocation(BoundContext, last.args)>>
            /\ last.out[v] = Apply(fn, BoundContext, last.args)

\* C10: unary returns fn itself when fn's declared arity is 1; for any other
\* arity it returns a new callable which, called with any number of
\* arguments, enters fn once with the bound context as receiver and with the
\* first argument alone (undefined when none was passed), and returns fn's
\* result.
C10_UnaryAdaptsUnlessArityOne ==
    utility = "unary" =>
        \A v \in Variants :
            /\ fn.length = 1 => closure[v] = fn
            /\ fn.length # 1 =>
                   /\ closure[v] # fn
                   /\ last.op = "unary" =>
                          /\ last.invoked[v] =
                                 <<Invocation(BoundContext, <<Arg(last.args, 1)>>)>>
                          /\ last.out[v] =
                                 Apply(fn, BoundContext, <<Arg(last.args, 1)>>)

\* C10's case: an arity-2 fn, adapted, called with three arguments, received one.
C10_Witness ==
    /\ last.op = "unary"
    /\ fn.length = 2
    /\ Len(last.args) = 3
    /\ Len(last.invoked["function"][1].args) = 1
    /\ last.invoked["function"][1].this = BoundContext


\* C11: a call with the show flag set returns the whole current cache, does
\* not enter fn and leaves the cache as it was, whatever key is passed; and
\* after a non-inspect call with a key that returned, the cache an inspect
\* call hands out has an entry under that key.
C11_InspectReturnsCache ==
    last.op = "memorized" =>
        \A v \in Variants :
            /\ Truthy(Default(LastShow, "b:false")) =>
                   /\ last.invoked[v] = <<>>
                   /\ last.out[v].kind = "return"
                   /\ last.out[v].value = "o:cached"
                   /\ last.out[v].obj = last.pre[v].cached
                   /\ closure[v].cached = last.pre[v].cached
            /\ (NonInspectCall /\ last.out[v].kind = "return") =>
                   HasOwn(closure[v].cached, ToPropertyKey(LastKey))



\* C12: map returns a sequence as long as the one handed in whose element i
\* is fn's result for element i, fn being entered once per element, in
\* order, with the context as receiver; the empty sequence gives the empty
\* sequence and the identity function gives the elements handed in.
C12_MapAppliesToEach ==
    (last.op = "map" /\ IsCallable(fn)) =>
        \A v \in Variants :
            /\ last.out[v].kind = "return"
            /\ Len(last.out[v].obj) = Len(last.args)
            /\ \A i \in 1..Len(last.args) : last.out[v].obj[i] = ItemResult(i)
            /\ last.invoked[v] = EntriesUpTo(Len(last.args))
            /\ (last.args = <<>> => last.out[v].obj = <<>>)
            /\ (fn.body = "first" => last.out[v].obj = last.args)

\* C12's case: three elements of two types, mapped to the names of their types.
C12_Witness ==
    /\ last.op = "map"
    /\ fn.body = "typeof"
    /\ last.args = <<"n:1", "s:", "n:0">>
    /\ last.out["function"].obj = <<"s:number", "s:string", "s:number">>

\* C13: filter returns exactly the elements for which fn, entered with the
\* context as receiver, returns a truthy value, in their original order (so
\* no more elements than were handed in), and fn is entered exactly once per
\* element, in order.
C13_FilterKeepsTruthy ==
    (last.op = "filter" /\ IsCallable(fn)) =>
        \A v \in Variants :
            LET Keep(item) == Truthy(Apply(fn, BoundContext, <<item>>).value)
            IN /\ last.out[v].kind = "return"
               /\ last.out[v].obj = SelectSeq(last.args, Keep)
               /\ Len(last.out[v].obj) <= Len(last.args)
               /\ last.invoked[v] = EntriesUpTo(Len(last.args))

\* C13's case: the middle element is rejected, the outer two are kept.
C13_Witness ==
    /\ last.op = "filter"
    /\ fn.body = "isNumber"
    /\ context = "o:ctx"
    /\ last.args = <<"n:0", "s:", "n:1">>
    /\ last.out["function"].obj = <<"n:0", "n:1">>
    /\ Len(last.invoked["arrow"]) = 3

\* C14: zip returns a sequence as long as the shorter of the two handed in
\* whose element i is fn's result for the pair (left[i], right[i]), fn being
\* entered once per pair, in order, with the context as receiver; the surplus
\* elements of the longer one are never handed to fn and the call returns.
C14_ZipPairsUpToShorter ==
    (last.op = "zip" /\ IsCallable(fn)) =>
        \A v \in Variants :
            LET leftArr == last.args[1]
                rightArr == last.args[2]
                shorter == IF Len(leftArr) <= Len(rightArr)
                           THEN Len(leftArr) ELSE Len(rightArr)
            IN /\ last.out[v].kind = "return"
               /\ Len(last.out[v].obj) = shorter
               /\ \A i \in 1..shorter :
                      last.out[v].obj[i] =
                          Apply(fn, BoundContext, <<leftArr[i], rightArr[i]>>).value
               /\ last.invoked[v] =
                      [i \in 1..shorter |->
                          Invocation(BoundContext, <<leftArr[i], rightArr[i]>>)]

\* C14's case: three elements on the left, two on the right, two pairs.
C14_Witness ==
    /\ last.op = "zip"
    /\ fn.body = "second"
    /\ Len(last.args[1]) = 3
    /\ Len(last.args[2]) = 2
    /\ last.out["function"].obj = <<"n:2", "n:3">>
    /\ Len(last.invoked["function"]) = 2



\* What the last call, made on the second wrapper, would do.
OnTwin(v) ==
    IF v = "function"
    THEN memorizedClosure(twin[v], LastKey, LastOverride, LastShow)
    ELSE memorizedArrowClosure(twin[v], LastKey, LastOverride, LastShow)

\* C15: of two wrappers built from the same fn, whatever calls are made on
\* the first leave the second's latch (once) or cache (memorized) as it was
\* built; a key the first has cached is no hit in the second: the call that
\* entered fn on the first enters fn on the second as well.
C15_WrappersOwnTheirState ==
    /\ utility = "once" =>
           \A v \in Variants : twin[v] = [fn |-> fn, context |-> BoundContext, done |-> FALSE]
    /\ utility = "memorized" =>
           \A v \in Variants :
               /\ twin[v] = [fn |-> fn, context |-> BoundContext, cached |-> EmptyObject]
               /\ (last.op = "memorized" /\ last.invoked[v] # <<>>) =>
                      OnTwin(v).invoked = last.invoked[v]

\* C15's case: the first wrapper holds two entries, a hit is served from
\* them, and the second wrapper holds none.
C15_Witness ==
    /\ last.op = "memorized"
    /\ Cardinality(OwnKeys(closure["function"].cached)) = 2
    /\ last.invoked["function"] = <<>>
    /\ last.out["function"].value = "s:number"
    /\ OwnKeys(twin["function"].cached) = {}
    /\ OnTwin("function").invoked # <<>>



\* Whether the last call on sequences reached its first `fn.call`: the
\* sequence (for zip: each of the two) has an element.
AttemptsCall ==
    IF last.op = "zip"
    THEN Len(last.args[1]) > 0 /\ Len(last.args[2]) > 0
    ELSE Len(last.args) > 0

\* What the last call on sequences returns when nothing is to be visited.
EmptyResult ==
    CASE last.op = "every" -> Return("b:true")
      [] last.op = "any" -> Return("b:false")
      [] last.op = "forEach" -> Return(Undefined)
      [] OTHER -> ReturnArray(<<>>)

\* C16: a fn that is not callable, handed to map, filter, forEach, every, any
\* or zip, is not checked beforehand: the call fails with a TypeError at its
\* first attempt to invoke fn, which a sequence with an element (for zip:
\* two such sequences) reaches at the first element; when nothing is to be
\* visited the call returns its usual empty result.
C16_NonCallableFailsAtFirstUse ==
    (last.op \in {"map", "filter", "forEach", "every", "any", "zip"}
     /\ ~IsCallable(fn)) =>
        \A v \in Variants :
            /\ last.invoked[v] = <<>>
            /\ last.out[v] = (IF AttemptsCall THEN Throw("TypeError") ELSE EmptyResult)

\* C16's case: zip with a non-callable fn fails on two non-empty sequences.
C16_Witness ==
    /\ last.op = "zip"
    /\ ~IsCallable(fn)
    /\ Len(last.args[1]) = 2
    /\ Len(last.args[2]) = 1
    /\ last.out["function"] = Throw("TypeError")
    /\ last.out["arrow"] = Throw("TypeError")



\* C17: when fn throws during a non-inspect call, the call ends with fn's
\* error, the cache is exactly what it was before the call (no entry is
\* added for the key), and the same call made again enters fn again.
C17_FailureLeavesCacheAlone ==
    NonInspectCall =>
        \A v \in Variants :
            (last.invoked[v] # <<>>
             /\ Apply(fn, ExpectedReceiver, <<LastKey>>).kind = "throw") =>
                /\ last.out[v] = Apply(fn, ExpectedReceiver, <<LastKey>>)
                /\ closure[v].cached = last.pre[v].cached
                /\ Again(v).invoked = last.invoked[v]
                /\ Again(v).out = last.out[v]

\* C17's case: fn threw for a key while the cache held another key's entry.
C17_Witness ==
    /\ NonInspectCall
    /\ fn.body = "throwIfString"
    /\ LastKey = "s:1"
    /\ last.out["function"] = Throw("Error")
    /\ OwnKeys(last.pre["function"].cached) = {"2"}
    /\ OwnKeys(closure["function"].cached) = {"2"}

\* C18: no call, inspect or not, hit or miss, removes an entry of the cache:
\* the keys present after a call include the keys present before it.
C18_CacheOnlyGrows ==
    last.op = "memorized" =>
        \A v \in Variants :
            OwnKeys(last.pre[v].cached) \subseteq OwnKeys(closure[v].cached)

\* C18's case: a third entry is added to a cache holding two.
C18_Witness ==
    /\ last.op = "memorized"
    /\ Cardinality(OwnKeys(last.pre["function"].cached)) = 2
    /\ Cardinality(OwnKeys(closure["function"].cached)) = 3



\* C19: for every sequence s and every predicate fn, every(filter(s, fn), fn)
\* is true.
C19_EveryOfFilterIsTrue ==
    last.op = "every(filter)" =>
        \A v \in Variants : last.out[v] = Return("b:true")

\* C20: map, filter, forEach, every, any and zip leave the sequences handed
\* in with the same elements in the same order, and what map, filter and zip
\* return is an array created by the call, none of those handed in.
C20_InputsUntouched ==
    last.op \in {"map", "filter", "forEach", "every", "any", "zip"} =>
        \A v \in Variants :
            /\ last.arrays[v] = (IF last.op = "zip" THEN last.args ELSE <<last.args>>)
            /\ (last.op \in {"map", "filter", "zip"} /\ last.out[v].kind = "return") =>
                   /\ last.out[v].value = "o:results"
                   /\ last.out[v].value \notin InputArrays

\* C20's case: filter dropped an element of a sequence that still holds it.
C20_Witness ==
    /\ last.op = "filter"
    /\ last.args = <<"n:0", "n:1">>
    /\ last.out["function"].obj = <<"n:1">>
    /\ last.arrays["function"] = <<(<<"n:0", "n:1">>)>>



\* C21: the latch of once is set before fn is entered, so the one attempt is
\* used up even when it does not complete.  An invocation that finds the
\* latch unset leaves it set however it ends; when fn throws the error
\* reaches the caller; when fn calls the guarded callable while it runs, that
\* nested call returns undefined (which fn returns) and fn is entered once
\* only; every invocation that finds the latch set returns undefined without
\* entering fn and leaves the latch set.
C21_LatchSetBeforeFn ==
    last.op = "once" =>
        \A v \in Variants :
            /\ closure[v].done
            /\ ~last.pre[v].done =>
                   /\ Len(last.invoked[v]) <= 1
                   /\ (last.invoked[v] # <<>> /\ fn.body = "throws") =>
                          last.out[v] = Throw("Error")
                   /\ (last.invoked[v] # <<>> /\ fn.body = "reenter") =>
                          last.out[v] = Return(Undefined)
            /\ last.pre[v].done =>
                   /\ last.invoked[v] = <<>>
                   /\ last.out[v] = Return(Undefined)

\* C21's case: fn threw on the first invocation, and the one after it
\* returned undefined without entering fn.
C21_Witness ==
    /\ utility = "once"
    /\ fn.body = "throws"
    /\ hostArguments = CommonJS
    /\ n = 2
    /\ \A v \in Variants :
           /\ last.pre[v].done
           /\ last.invoked[v] = <<>>
           /\ last.out[v] = Return(Undefined)



\* What the last call would have done, on the cache it found, had it been
\* given another override receiver.
WithOverride(v, override) ==
    IF v = "function"
    THEN memorizedClosure(last.pre[v], LastKey, override, LastShow)
    ELSE memorizedArrowClosure(last.pre[v], LastKey, override, LastShow)

\* C22: the cache is keyed by the key alone, never by the receiver: when a
\* truthy result is cached for the key, a non-inspect call with it returns
\* that value without entering fn whatever override receiver is passed,
\* also when fn would return something else under that receiver.
C22_ReceiverIsNoKey ==
    NonInspectCall =>
        \A v \in Variants :
            LET key == ToPropertyKey(LastKey)
                before == last.pre[v].cached
            IN (HasOwn(before, key) /\ Truthy(before[key])) =>
                   \A override \in Overrides \cup {Null, "o:caller"} :
                       /\ WithOverride(v, override).invoked = <<>>
                       /\ WithOverride(v, override).out = Return(before[key])
                       /\ WithOverride(v, override).out = last.out[v]

\* C22's case: the result fn computed under the bound context is returned
\* to a call that passes an override receiver under which fn returns
\* another value.
C22_Witness ==
    /\ NonInspectCall
    /\ fn.body = "this"
    /\ LastOverride = "o:B"
    /\ \A v \in Variants :
           /\ last.pre[v].cached[ToPropertyKey(LastKey)] = "o:ctx"
           /\ last.out[v] = Return("o:ctx")
           /\ last.invoked[v] = <<>>
    /\ Apply(fn, ExpectedReceiver, <<LastKey>>) = Return("o:B")



\* C23: when fn's declared arity is 1, what unary returns is fn itself: a
\* call of it enters fn with the caller's receiver, not the context, and
\* with every argument the caller passed; only for another arity does fn
\* get the context as receiver and the first argument alone.
C23_ArityOneIsNotAdapted ==
    last.op = "unary" =>
        \A v \in Variants :
            /\ fn.length = 1 =>
                   /\ closure[v] = fn
                   /\ last.invoked[v] = <<Invocation(last.self, last.args)>>
                   /\ last.out[v] = Apply(fn, last.self, last.args)
            /\ fn.length # 1 =>
                   last.invoked[v] = <<Invocation(BoundContext, <<Arg(last.args, 1)>>)>>

\* C23's case: an arity-1 fn built with a context, called as a method of
\* another object with three arguments, saw that object and all three.
C23_Witness ==
    /\ last.op = "unary"
    /\ fn = UserFn(1, "argc")
    /\ context = "o:ctx"
    /\ last.self = "o:caller"
    /\ Len(last.args) = 3
    /\ \A v \in Variants :
           /\ last.invoked[v][1].this = "o:caller"
           /\ last.out[v] = Return(Num(3))


=============================================================================
